---------------------------- MODULE Spec2Model ----------------------------
(***************************************************************************)
(* Model of dev/sync_gists.py: the reconciliation of local files against   *)
(* the gists of a GitHub account and the local tracking file .gists.toml.  *)
(*                                                                         *)
(* Text (file contents, file names, ignore patterns) is a sequence of      *)
(* one-character strings; "LF" and "CR" stand for the two line-end bytes.  *)
(* A run of main() is: Load (lines 336-346 and 234), then one action per   *)
(* iteration of the loop of sync_files_to_gists, then Finish, or an early  *)
(* end by sys.exit(1) or by an exception nobody catches.                   *)
(***************************************************************************)
EXTENDS Integers, Sequences, FiniteSets, TLC

VARIABLES
    args,               \* the parsed command line: create_new, dry_run, interactive, diff
    folder,             \* the paths the command line can name
    files,              \* the list handed to sync_files_to_gists, as far as read
    eof,                \* the loop has seen the end of that list
    gists,              \* the remote service: gist id -> [name, content, public]
    config,             \* the files table of .gists.toml: name -> [gist_id, url]
    gistignore,         \* the lines of .gistignore
    created,            \* number of gists the service has created so far
    existing_gists,     \* main's merged name -> id map
    excluded_patterns,  \* the patterns sync_files_to_gists loaded at its start
    pc,                 \* where the run is
    i,                  \* index in files of the next loop iteration
    log,                \* what this run did, in order (calls, prints, writes, prompts)
    run,                \* number of the current run
    prev                \* what the previous run left behind (for run-to-run claims)

vars == <<args, folder, files, eof, gists, config, gistignore, created, existing_gists,
          excluded_patterns, pc, i, log, run, prev>>

-----------------------------------------------------------------------------
(* Bounds *)

MaxFiles == 3
MaxRuns == 2

-----------------------------------------------------------------------------
(* Python values *)

None == "None"

Truthy(v) == v # None /\ v # ""

Get(d, k) == IF k \in DOMAIN d THEN d[k] ELSE None

Range(s) == {s[k] : k \in DOMAIN s}

EmptyDict == [k \in {} |-> None]

-----------------------------------------------------------------------------
(* Text *)

Txt_a_py == <<"a", ".", "p", "y">>
Txt_b_sh == <<"b", ".", "s", "h">>
Pat_star_sh == <<"*", ".", "s", "h">>

RECURSIVE TranslateNewlines(_)
TranslateNewlines(raw) ==
    IF raw = <<>> THEN <<>>
    ELSE IF raw[1] = "CR"
         THEN IF Len(raw) >= 2 /\ raw[2] = "LF"
              THEN <<"LF">> \o TranslateNewlines(SubSeq(raw, 3, Len(raw)))
              ELSE <<"LF">> \o TranslateNewlines(Tail(raw))
         ELSE <<raw[1]>> \o TranslateNewlines(Tail(raw))

(* Length of the first line of a non-empty text, its line end included. *)
RECURSIVE FirstLineLen(_)
FirstLineLen(s) ==
    IF s = <<>> THEN 0
    ELSE IF s[1] = "LF" THEN 1
    ELSE IF s[1] = "CR" THEN (IF Len(s) >= 2 /\ s[2] = "LF" THEN 2 ELSE 1)
    ELSE 1 + FirstLineLen(Tail(s))

RECURSIVE splitlines_keepends(_)
splitlines_keepends(s) ==
    IF s = <<>> THEN <<>>
    ELSE LET n == FirstLineLen(s)
         IN  <<SubSeq(s, 1, n)>> \o splitlines_keepends(SubSeq(s, n + 1, Len(s)))

RECURSIVE strip(_)
strip(s) ==
    IF s = <<>> THEN <<>>
    ELSE IF s[1] = " " THEN strip(Tail(s))
    ELSE IF s[Len(s)] = " " THEN strip(SubSeq(s, 1, Len(s) - 1))
    ELSE s

(* fnmatch of one path component: "*" matches any run of characters. *)
RECURSIVE fnmatch(_, _)
fnmatch(name, pat) ==
    IF pat = <<>> THEN name = <<>>
    ELSE IF pat[1] = "*"
         THEN fnmatch(name, Tail(pat)) \/ (name # <<>> /\ fnmatch(Tail(name), pat))
         ELSE name # <<>> /\ name[1] = pat[1] /\ fnmatch(Tail(name), Tail(pat))

-----------------------------------------------------------------------------
(* The local file system the runs see.  Two of the paths share a base name. *)

FS == <<
    [name |-> Txt_a_py, is_file |-> TRUE,  readable |-> TRUE,  raw |-> <<"x", "CR", "LF">>],
    [name |-> Txt_a_py, is_file |-> TRUE,  readable |-> TRUE,  raw |-> <<"x">>],
    [name |-> Txt_b_sh, is_file |-> TRUE,  readable |-> TRUE,  raw |-> <<"y", "LF", "z">>],
    [name |-> Txt_b_sh, is_file |-> FALSE, readable |-> FALSE, raw |-> <<>>],
    [name |-> Txt_a_py, is_file |-> TRUE,  readable |-> FALSE, raw |-> <<"x">>] >>

Paths == DOMAIN FS

path_name(p) == FS[p].name

is_file(p) == FS[p].is_file

CanRead(p) == FS[p].readable

read_text(p) == TranslateNewlines(FS[p].raw)

-----------------------------------------------------------------------------
(* The remote service behind GIST_API_URL.  A gist holds one file.  `fault`  *)
(* is what the service answers when it does not serve the request: 0 is a    *)
(* connection that fails (requests raises ConnectionError), 200 is no fault. *)

(* the id the service gives its n-th new gist *)
NewId(n) == "n" \o ToString(n)

HtmlUrl(id) == "https://gist.github.com/" \o id

Faults == {200, 403, 500, 0}

GistJson(store, id) ==
    [id |-> id, html_url |-> HtmlUrl(id), public |-> store[id].public,
     first_file |-> [filename |-> store[id].name, content |-> store[id].content]]

ApiPost(store, n, gist_data, fault) ==
    IF fault # 200 THEN [status |-> fault, store |-> store, created |-> n]
    ELSE LET id == NewId(n + 1)
             st == [g \in DOMAIN store \cup {id} |->
                        IF g = id
                        THEN [name |-> gist_data.file_name,
                              content |-> gist_data.content,
                              public |-> gist_data.public]
                        ELSE store[g]]
         IN  [status |-> 201, store |-> st, created |-> n + 1, json |-> GistJson(st, id)]

ApiPatch(store, n, id, gist_data, fault) ==
    IF fault # 200 THEN [status |-> fault, store |-> store, created |-> n]
    ELSE IF id \notin DOMAIN store THEN [status |-> 404, store |-> store, created |-> n]
    ELSE LET st == [store EXCEPT ![id].name = gist_data.file_name,
                                 ![id].content = gist_data.content]
         IN  [status |-> 200, store |-> st, created |-> n, json |-> GistJson(st, id)]

ApiGet(store, id, fault) ==
    IF fault # 200 THEN [status |-> fault]
    ELSE IF id \notin DOMAIN store THEN [status |-> 404]
    ELSE [status |-> 200, json |-> GistJson(store, id)]

(* response.raise_for_status(), and the connection error of the call itself *)
RaisesRequestException(response) == response.status = 0 \/ response.status >= 400

RaisesHTTPError(response) == response.status >= 400

-----------------------------------------------------------------------------
(* The log of a run *)

CallEv(k, op, id, name, content, response) ==
    [file |-> k, kind |-> "call", op |-> op, id |-> id, name |-> name,
     content |-> content, status |-> response.status,
     ok |-> response.status \in {200, 201},
     json |-> IF response.status \in {200, 201} THEN response.json ELSE None]

PrintEv(k, msg) == [file |-> k, kind |-> "print", msg |-> msg]

SaveEv(k, name, id) == [file |-> k, kind |-> "save", name |-> name, gist_id |-> id]

IgnoreEv(k, pattern) == [file |-> k, kind |-> "ignore", pattern |-> pattern]

PromptEv(k, choice) == [file |-> k, kind |-> "prompt", choice |-> choice]

LookupEv(k, gist_id) == [file |-> k, kind |-> "lookup", gist_id |-> gist_id]

World == [gists |-> gists, config |-> config, gistignore |-> gistignore,
          created |-> created, log |-> log]

Logged(w, evs) == [w EXCEPT !.log = w.log \o evs]

-----------------------------------------------------------------------------
(* .gists.toml and .gistignore *)

load_gist_mappings(cfg) == [n \in DOMAIN cfg |-> cfg[n].gist_id]

(* a save that never reaches the file *)
save_gist_mapping_lost(w, k, name, gist_id, gist_url) ==
    [w EXCEPT !.log = w.log \o <<SaveEv(k, name, gist_id)>>]

save_gist_mapping(w, k, name, gist_id, gist_url) ==
    LET entry == [gist_id |-> gist_id, url |-> gist_url]
        tbl == [n \in DOMAIN w.config \cup {name} |->
                    IF n = name THEN entry ELSE w.config[n]]
    IN  [w EXCEPT !.config = tbl, !.log = w.log \o <<SaveEv(k, name, gist_id)>>]

get_excluded_patterns(lines) ==
    {strip(lines[k]) : k \in {j \in DOMAIN lines : strip(lines[j]) # <<>>}}

(* a filter that excludes nothing *)
should_sync_file_all(name, patterns) == TRUE

should_sync_file(name, patterns) == ~ \E pat \in patterns : fnmatch(name, pat)

(* an append that never reaches the file *)
add_to_gistignore_lost(w, k, pattern) ==
    [w EXCEPT !.log = w.log \o <<IgnoreEv(k, pattern)>>]

add_to_gistignore(w, k, pattern) ==
    [w EXCEPT !.gistignore = Append(w.gistignore, pattern),
              !.log = w.log \o <<IgnoreEv(k, pattern)>>]

-----------------------------------------------------------------------------
(* The functions of sync_gists.py.  Each takes the world `w` it starts from  *)
(* and gives the world it leaves and the exception it ends with ("none"      *)
(* when it returns).  `k` is the position in files of file_path.      *)

Ret(w) == [w |-> w, exc |-> "none"]

Raise(w, e) == [w |-> w, exc |-> e]

(* the request with an except clause that does not re-raise *)
sync_request_no_raise(w, k, file_path, gist_id, content, fault) ==
    LET file_name == path_name(file_path)
        gist_data == [file_name |-> file_name, content |-> content, public |-> FALSE]
        update == Truthy(gist_id)
        response == IF update
                    THEN ApiPatch(w.gists, w.created, gist_id, gist_data, fault)
                    ELSE ApiPost(w.gists, w.created, gist_data, fault)
        started == PrintEv(k, IF update THEN "Updating gist" ELSE "Creating gist")
        call == CallEv(k, IF update THEN "PATCH" ELSE "POST", gist_id, file_name,
                       content, response)
    IN  IF response.status = 0
        THEN Raise(Logged(w, <<started, call>>), "ConnectionError")
        ELSE IF RaisesHTTPError(response)
        THEN IF response.status = 403
             THEN Raise(Logged(w, <<started, call, PrintEv(k, "failed"),
                                    PrintEv(k, "Error: GitHub token lacks required permissions.")>>),
                        "SystemExit")
             ELSE Ret(Logged(w, <<started, call, PrintEv(k, "failed")>>))
        ELSE Ret(save_gist_mapping(
                    Logged([w EXCEPT !.gists = response.store, !.created = response.created],
                           <<started, call, PrintEv(k, "done")>>),
                    k, file_name, response.json.id, response.json.html_url))

(* lines 107-144: the request and what follows it *)
sync_request(w, k, file_path, gist_id, content, fault) ==
    LET file_name == path_name(file_path)
        gist_data == [file_name |-> file_name, content |-> content, public |-> FALSE]
        update == Truthy(gist_id)
        response == IF update
                    THEN ApiPatch(w.gists, w.created, gist_id, gist_data, fault)
                    ELSE ApiPost(w.gists, w.created, gist_data, fault)
        started == PrintEv(k, IF update THEN "Updating gist" ELSE "Creating gist")
        call == CallEv(k, IF update THEN "PATCH" ELSE "POST", gist_id, file_name,
                       content, response)
    IN  IF response.status = 0
        THEN Raise(Logged(w, <<started, call>>), "ConnectionError")
        ELSE IF RaisesHTTPError(response)
        THEN IF response.status = 403
             THEN Raise(Logged(w, <<started, call, PrintEv(k, "failed"),
                                    PrintEv(k, "Error: GitHub token lacks required permissions.")>>),
                        "SystemExit")
             ELSE Raise(Logged(w, <<started, call, PrintEv(k, "failed")>>), "HTTPError")
        ELSE Ret(save_gist_mapping(
                    Logged([w EXCEPT !.gists = response.store, !.created = response.created],
                           <<started, call, PrintEv(k, "done")>>),
                    k, file_name, response.json.id, response.json.html_url))

(* sync_to_gist without its dry-run return *)
sync_to_gist_no_dry_run(w, k, file_path, gist_id, dry_run, fault) ==
    IF ~CanRead(file_path) THEN Raise(w, "OSError")
    ELSE sync_request(w, k, file_path, gist_id, read_text(file_path), fault)

sync_to_gist(w, k, file_path, gist_id, dry_run, fault) ==
    IF ~CanRead(file_path) THEN Raise(w, "OSError")
    ELSE IF dry_run
    THEN Ret(Logged(w, <<PrintEv(k, IF Truthy(gist_id) THEN "Would update gist"
                                                      ELSE "Would create gist")>>))
    ELSE sync_request(w, k, file_path, gist_id, read_text(file_path), fault)

(* show_diff comparing the local lines with the remote text, never equal *)
show_diff_always_changed(w, k, file_path, gist_id, fault) ==
    IF ~CanRead(file_path) THEN [w |-> w, exc |-> "OSError", has_changes |-> FALSE]
    ELSE LET response == ApiGet(w.gists, gist_id, fault)
             call == CallEv(k, "GET", gist_id, None, None, response)
         IN  IF RaisesRequestException(response)
             THEN [w |-> Logged(w, <<call, PrintEv(k, "Error fetching gist content")>>),
                   exc |-> "none", has_changes |-> TRUE]
             ELSE [w |-> Logged(save_gist_mapping(Logged(w, <<call>>), k,
                                                  path_name(file_path), response.json.id,
                                                  response.json.html_url),
                                <<PrintEv(k, "Diff")>>),
                   exc |-> "none", has_changes |-> TRUE]

(* show_diff taking a gist it could not fetch for one without changes *)
show_diff_error_unchanged(w, k, file_path, gist_id, fault) ==
    IF ~CanRead(file_path) THEN [w |-> w, exc |-> "OSError", has_changes |-> FALSE]
    ELSE LET local_content == splitlines_keepends(read_text(file_path))
             response == ApiGet(w.gists, gist_id, fault)
             call == CallEv(k, "GET", gist_id, None, None, response)
         IN  IF RaisesRequestException(response)
             THEN [w |-> Logged(w, <<call, PrintEv(k, "Error fetching gist content")>>),
                   exc |-> "none", has_changes |-> FALSE]
             ELSE LET gist == response.json
                      remote_content == splitlines_keepends(gist.first_file.content)
                      w1 == save_gist_mapping(Logged(w, <<call>>), k, path_name(file_path),
                                              gist.id, gist.html_url)
                  IN  IF local_content = remote_content
                      THEN [w |-> Logged(w1, <<PrintEv(k, "No changes")>>),
                            exc |-> "none", has_changes |-> FALSE]
                      ELSE [w |-> Logged(w1, <<PrintEv(k, "Diff")>>),
                            exc |-> "none", has_changes |-> TRUE]

(* lines 195-229; the last "return False" follows a unified diff that is    *)
(* empty, which two different line lists never give.                        *)
show_diff(w, k, file_path, gist_id, fault) ==
    IF ~CanRead(file_path) THEN [w |-> w, exc |-> "OSError", has_changes |-> FALSE]
    ELSE LET local_content == splitlines_keepends(read_text(file_path))
             response == ApiGet(w.gists, gist_id, fault)
             call == CallEv(k, "GET", gist_id, None, None, response)
         IN  IF RaisesRequestException(response)
             THEN [w |-> Logged(w, <<call, PrintEv(k, "Error fetching gist content")>>),
                   exc |-> "none", has_changes |-> TRUE]
             ELSE LET gist == response.json
                      remote_content == splitlines_keepends(gist.first_file.content)
                      w1 == save_gist_mapping(Logged(w, <<call>>), k, path_name(file_path),
                                              gist.id, gist.html_url)
                  IN  IF local_content = remote_content
                      THEN [w |-> Logged(w1, <<PrintEv(k, "No changes")>>),
                            exc |-> "none", has_changes |-> FALSE]
                      ELSE [w |-> Logged(w1, <<PrintEv(k, "Diff")>>),
                            exc |-> "none", has_changes |-> TRUE]

Choices == {"u", "x", "s", "q"}

(* interactive_sync returning True for "q" as for the other keys *)
interactive_sync_no_quit(w, k, file_path, dry_run, choice, fault) ==
    LET w1 == Logged(w, <<PromptEv(k, choice)>>)
    IN  IF choice \in {"q", "s"}
        THEN [w |-> w1, exc |-> "none", continue |-> TRUE]
        ELSE IF choice = "x"
        THEN [w |-> Logged(add_to_gistignore(w1, k, path_name(file_path)),
                           <<PrintEv(k, "Added to .gistignore")>>),
              exc |-> "none", continue |-> TRUE]
        ELSE LET r == sync_to_gist(w1, k, file_path, None, dry_run, fault)
             IN  [w |-> r.w, exc |-> r.exc, continue |-> TRUE]

(* lines 162-185; a key that is none of the four only repeats the prompt *)
interactive_sync(w, k, file_path, dry_run, choice, fault) ==
    LET w1 == Logged(w, <<PromptEv(k, choice)>>)
    IN  IF choice = "q" THEN [w |-> w1, exc |-> "none", continue |-> FALSE]
        ELSE IF choice = "s"
        THEN [w |-> Logged(w1, <<PrintEv(k, "Skipped. Will ask again next time.")>>),
              exc |-> "none", continue |-> TRUE]
        ELSE IF choice = "x"
        THEN [w |-> Logged(add_to_gistignore(w1, k, path_name(file_path)),
                           <<PrintEv(k, "Added to .gistignore")>>),
              exc |-> "none", continue |-> TRUE]
        ELSE LET r == sync_to_gist(w1, k, file_path, None, dry_run, fault)
             IN  [w |-> r.w, exc |-> r.exc, continue |-> TRUE]

(* lines 85-93: the listing is a list; of two secret gists with the same    *)
(* first file name the later one of the list stays in the dict.             *)
get_existing_gists(store) ==
    LET secret == {g \in DOMAIN store : store[g].public = FALSE}
        names == {store[g].name : g \in secret}
    IN  {d \in [names -> secret] : \A n \in names : store[d[n]].name = n}

(* the merge the other way round: {**tracked_gists, **api_gists} *)
MergeDicts_api_wins(api_gists, tracked_gists) ==
    [n \in DOMAIN api_gists \cup DOMAIN tracked_gists |->
        IF n \in DOMAIN api_gists THEN api_gists[n] ELSE tracked_gists[n]]

(* line 343: {**api_gists, **tracked_gists} *)
MergeDicts(api_gists, tracked_gists) ==
    [n \in DOMAIN api_gists \cup DOMAIN tracked_gists |->
        IF n \in DOMAIN tracked_gists THEN tracked_gists[n] ELSE api_gists[n]]

-----------------------------------------------------------------------------
(* Initial states: a command line, a file list, the gists of the account,   *)
(* a tracking file and an ignore file.                                       *)

OldGists ==
    [g \in {"X", "Y", "Z"} |->
        IF g = "X" THEN [name |-> Txt_a_py, content |-> <<"x", "LF">>, public |-> FALSE]
        ELSE IF g = "Y" THEN [name |-> Txt_a_py, content |-> <<"x">>, public |-> FALSE]
        ELSE [name |-> Txt_b_sh, content |-> <<"y">>, public |-> TRUE]]

InitStores == {[g \in S |-> OldGists[g]] : S \in {{"Z"}, {"X", "Z"}, {"X", "Y", "Z"}}}

Tracked(T) == [n \in DOMAIN T |-> [gist_id |-> T[n], url |-> HtmlUrl(T[n])]]

InitConfigs ==
    {Tracked(T) : T \in {EmptyDict,
                         [n \in {Txt_a_py} |-> "X"],
                         [n \in {Txt_a_py} |-> "Y"],
                         [n \in {Txt_a_py, Txt_b_sh} |-> IF n = Txt_a_py THEN "X" ELSE "Z"]}}

InitIgnores == {<<>>, <<Pat_star_sh, <<" ">>>>}

NoPrev == [synced |-> <<>>, gists |-> EmptyDict, config |-> EmptyDict]

(* The file list is read as the loop reads it: files holds the entries the  *)
(* loop has reached so far, and the list may end after any of them (up to   *)
(* MaxFiles entries, no path twice).  A later run reads the same list.      *)
InitIn(dir) ==
    /\ args \in [create_new : BOOLEAN, dry_run : BOOLEAN,
                 interactive : BOOLEAN, diff : BOOLEAN]
    /\ folder = dir
    /\ files = <<>>
    /\ eof = FALSE
    /\ gists \in InitStores
    /\ config \in InitConfigs
    /\ gistignore \in InitIgnores
    /\ created = 0
    /\ existing_gists = EmptyDict
    /\ excluded_patterns = {}
    /\ pc = "start"
    /\ i = 1
    /\ log = <<>>
    /\ run = 1
    /\ prev = NoPrev

Init == InitIn(Paths)

(* A first run that may change the service (dry_run false), to be followed  *)
(* by further runs: the paths that a run can get past, no ignore file, and  *)
(* interactive only where it has an effect.                                 *)
InitRerun ==
    /\ InitIn({p \in Paths : ~is_file(p) \/ CanRead(p)})
    /\ ~args.dry_run
    /\ args.interactive => args.create_new
    /\ DOMAIN gists = {"X", "Z"}
    /\ Txt_b_sh \notin DOMAIN config
    /\ gistignore = <<>>

-----------------------------------------------------------------------------
(* Actions *)

ListFaults == {200, 0}

(* the faults of the fetch of show_diff: a connection that fails; the HTTP  *)
(* error of a fetch is the 404 of a gist the service no longer holds        *)
GetFaults == {200, 0}

LoadEv(tracked, api, status) ==
    [file |-> 0, kind |-> "load", tracked |-> tracked, api |-> api, status |-> status]

(* main, lines 336-346, and line 234 of sync_files_to_gists *)
Load ==
    /\ pc = "start"
    /\ \E fault \in ListFaults :
        LET tracked_gists == load_gist_mappings(config)
        IN  IF fault = 200
            THEN \E api_gists \in get_existing_gists(gists) :
                    /\ existing_gists' = MergeDicts(api_gists, tracked_gists)
                    /\ log' = <<LoadEv(tracked_gists, api_gists, 200)>>
            ELSE /\ existing_gists' = tracked_gists
                 /\ log' = <<LoadEv(tracked_gists, EmptyDict, fault),
                             PrintEv(0, "Warning: Could not fetch gists from GitHub API, using local tracking only")>>
    /\ excluded_patterns' = IF args.create_new THEN get_excluded_patterns(gistignore) ELSE {}
    /\ pc' = "loop"
    /\ i' = 1
    /\ UNCHANGED <<args, folder, files, eof, gists, config, gistignore, created, run, prev>>

(* the entry the loop takes next: the i-th of the list when an earlier run  *)
(* has read it, and any path not yet in the list otherwise                  *)
NextPaths ==
    IF pc # "loop" THEN {}
    ELSE IF i <= Len(files) THEN {files[i]}
    ELSE IF ~eof /\ Len(files) < MaxFiles THEN folder \ Range(files)
    ELSE {}

Read(file_path) == IF i <= Len(files) THEN files ELSE Append(files, file_path)

gist_id_of(file_path) == Get(existing_gists, path_name(file_path))

(* what an iteration leaves: the world of r, and the next iteration or the  *)
(* exception that ends the run                                              *)
Commit(file_path, r) ==
    /\ files' = Read(file_path)
    /\ gists' = r.w.gists
    /\ config' = r.w.config
    /\ gistignore' = r.w.gistignore
    /\ created' = r.w.created
    /\ log' = r.w.log
    /\ IF r.exc = "none" THEN pc' = "loop" /\ i' = i + 1
                         ELSE pc' = r.exc /\ i' = i
    /\ UNCHANGED <<args, folder, eof, existing_gists, excluded_patterns, run, prev>>

(* lines 237-239 *)
SkipNotAFile ==
    \E file_path \in NextPaths :
        /\ ~is_file(file_path)
        /\ Commit(file_path,
                  Ret(Logged(World, <<PrintEv(i, "Warning: not a file, skipping")>>)))

(* lines 241-247 *)
UpdateGist ==
    \E file_path \in NextPaths :
        /\ is_file(file_path)
        /\ Truthy(gist_id_of(file_path))
        /\ \E gfault \in GetFaults, fault \in Faults :
            LET gist_id == gist_id_of(file_path)
                w0 == Logged(World, <<LookupEv(i, gist_id)>>)
                d == IF args.diff THEN show_diff(w0, i, file_path, gist_id, gfault)
                     ELSE [w |-> w0, exc |-> "none", has_changes |-> TRUE]
            IN  IF d.exc # "none" \/ ~d.has_changes
                THEN Commit(file_path, [w |-> d.w, exc |-> d.exc])
                ELSE Commit(file_path,
                            sync_to_gist(d.w, i, file_path, gist_id, args.dry_run, fault))

NoGist(file_path) == is_file(file_path) /\ ~Truthy(gist_id_of(file_path))

(* lines 248-249 and 254-255 *)
CreateGist ==
    \E file_path \in NextPaths :
        /\ NoGist(file_path)
        /\ args.create_new
        /\ should_sync_file(path_name(file_path), excluded_patterns)
        /\ ~args.interactive
        /\ \E fault \in Faults :
            Commit(file_path,
                   sync_to_gist(Logged(World, <<LookupEv(i, None)>>), i, file_path,
                                None, args.dry_run, fault))

SyncComplete(k) == IF args.dry_run THEN <<>> ELSE <<PrintEv(k, "Sync complete.")>>

(* lines 248-253; "q" leaves the loop, and main goes on to line 365 *)
Prompt ==
    \E file_path \in NextPaths :
        /\ NoGist(file_path)
        /\ args.create_new
        /\ should_sync_file(path_name(file_path), excluded_patterns)
        /\ args.interactive
        /\ \E choice \in Choices, fault \in Faults :
            LET r == interactive_sync(Logged(World, <<LookupEv(i, None)>>), i, file_path,
                                      args.dry_run, choice, fault)
            IN  IF r.continue
                THEN Commit(file_path, [w |-> r.w, exc |-> r.exc])
                ELSE Commit(file_path,
                            [w |-> Logged(r.w, <<PrintEv(i, "Quitting...")>> \o SyncComplete(i)),
                             exc |-> "done"])

(* lines 248-249, should_sync_file false: nothing is printed *)
SkipExcluded ==
    \E file_path \in NextPaths :
        /\ NoGist(file_path)
        /\ args.create_new
        /\ ~should_sync_file(path_name(file_path), excluded_patterns)
        /\ Commit(file_path, Ret(Logged(World, <<LookupEv(i, None)>>)))

(* the create_new test left out: a file without a gist gets one *)
SkipNoGist_creates ==
    \E file_path \in NextPaths :
        /\ NoGist(file_path)
        /\ ~args.create_new
        /\ \E fault \in Faults :
            Commit(file_path,
                   sync_to_gist(Logged(World, <<LookupEv(i, None)>>), i, file_path,
                                None, args.dry_run, fault))

(* lines 256-257 *)
SkipNoGist ==
    \E file_path \in NextPaths :
        /\ NoGist(file_path)
        /\ ~args.create_new
        /\ Commit(file_path,
                  Ret(Logged(World, <<LookupEv(i, None),
                                      PrintEv(i, "Skipping (no existing gist)")>>)))

(* the list is over: main, lines 365-366 *)
Finish ==
    /\ pc = "loop"
    /\ i > Len(files)
    /\ pc' = "done"
    /\ eof' = TRUE
    /\ log' = log \o SyncComplete(i)
    /\ UNCHANGED <<args, folder, files, gists, config, gistignore, created, existing_gists,
                   excluded_patterns, i, run, prev>>

Ended == pc \in {"done", "SystemExit", "HTTPError", "ConnectionError", "OSError"}

(* the exit status of the process: sys.exit(1), or an uncaught exception *)
ExitStatus == IF pc = "done" THEN 0 ELSE 1

Mutations(k) ==
    {j \in DOMAIN log : /\ log[j].kind = "call"
                        /\ log[j].file = k
                        /\ log[j].op \in {"POST", "PATCH"}
                        /\ log[j].ok}

Synced == [k \in DOMAIN files |->
              IF Mutations(k) = {} THEN None
              ELSE log[CHOOSE j \in Mutations(k) : TRUE].json.id]

(* the same command line once more, the local files unchanged *)
Rerun ==
    /\ Ended
    /\ run < MaxRuns
    /\ run' = run + 1
    /\ prev' = [synced |-> Synced, gists |-> gists, config |-> config]
    /\ pc' = "start"
    /\ i' = 1
    /\ log' = <<>>
    /\ existing_gists' = EmptyDict
    /\ excluded_patterns' = {}
    /\ UNCHANGED <<args, folder, files, eof, gists, config, gistignore, created>>

Step ==
    \/ Load
    \/ SkipNotAFile
    \/ UpdateGist
    \/ CreateGist
    \/ Prompt
    \/ SkipExcluded
    \/ SkipNoGist
    \/ Finish

Next == Step \/ Rerun

Spec == Init /\ [][Step]_vars

SpecRerun == InitRerun /\ [][Next]_vars

-----------------------------------------------------------------------------
(* Reading the log *)

Loaded == pc # "start"

Tracked0 == log[1].tracked

Api0 == log[1].api

(* the loop has run its iteration for the k-th file *)
Processed(k) == k \in DOMAIN files /\ (k < i \/ (k = i /\ Ended))

EventsOf(k) == {j \in DOMAIN log : log[j].file = k}

CallsOf(k, ops) == {j \in EventsOf(k) : log[j].kind = "call" /\ log[j].op \in ops}

KindOf(k, kind) == {j \in EventsOf(k) : log[j].kind = kind}

Printed(k, msg) == \E j \in KindOf(k, "print") : log[j].msg = msg

LookedUp(k, gist_id) == \E j \in KindOf(k, "lookup") : log[j].gist_id = gist_id

Prompted(k, choice) == \E j \in KindOf(k, "prompt") : log[j].choice = choice

NameOf(k) == path_name(files[k])

(* the iteration for the k-th file took the update branch with gist id X *)
ResolvedToUpdate(k, X) ==
    /\ LookedUp(k, X)
    /\ CallsOf(k, {"POST"}) = {}
    /\ KindOf(k, "prompt") = {}
    /\ \A j \in CallsOf(k, {"GET", "PATCH"}) : log[j].id = X
    /\ \/ CallsOf(k, {"PATCH"}) # {}
       \/ Printed(k, "Would update gist")
       \/ Printed(k, "No changes")
       \/ ~CanRead(files[k])

-----------------------------------------------------------------------------
(* C1: whatever the listing returns or fails to return, a regular file whose *)
(* name the tracking file maps to id X is handled as an update against X:    *)
(* the id looked up is X, every call for the file targets X, no gist is      *)
(* created for it and the operator is not asked.                             *)
C1_MappingPrecedence ==
    Loaded =>
        \A k \in DOMAIN files :
            (Processed(k) /\ is_file(files[k]) /\ NameOf(k) \in DOMAIN Tracked0)
                => ResolvedToUpdate(k, Tracked0[NameOf(k)])

(* the tracking file says Y, the listing says X, and Y is patched *)
C1_Witness ==
    /\ Loaded
    /\ \E k \in DOMAIN files :
        /\ Processed(k)
        /\ NameOf(k) \in DOMAIN Tracked0 \cap DOMAIN Api0
        /\ Tracked0[NameOf(k)] # Api0[NameOf(k)]
        /\ \E j \in CallsOf(k, {"PATCH"}) : log[j].id = Tracked0[NameOf(k)] /\ log[j].ok

(* C2: under dry_run no create and no update call is made, whatever the      *)
(* other flags and the operator's choices; every file that reaches           *)
(* sync_to_gist gets the report of the intended action instead.              *)
C2_DryRunNoMutation ==
    (Loaded /\ args.dry_run) =>
        /\ \A k \in DOMAIN files : CallsOf(k, {"POST", "PATCH"}) = {}
        /\ \A k \in DOMAIN files :
            (Processed(k) /\ is_file(files[k]) /\ CanRead(files[k])) =>
                /\ Prompted(k, "u") => Printed(k, "Would create gist")
                /\ (LookedUp(k, None) /\ args.create_new /\ ~args.interactive
                        /\ should_sync_file(NameOf(k), excluded_patterns))
                    => Printed(k, "Would create gist")
                /\ (~LookedUp(k, None) /\ ~Printed(k, "No changes"))
                    => Printed(k, "Would update gist")

(* a dry run in which the operator chose upload and an update was due too *)
C2_Witness ==
    /\ Loaded
    /\ args.dry_run /\ args.interactive /\ args.diff
    /\ \E k \in DOMAIN files : Prompted(k, "u") /\ Printed(k, "Would create gist")
    /\ \E k \in DOMAIN files : Printed(k, "Diff") /\ Printed(k, "Would update gist")

C4_DiffIdenticalNoUpdate ==
    (Loaded /\ args.diff) =>
        \A k \in DOMAIN files :
            \A j \in CallsOf(k, {"GET"}) :
                (/\ log[j].ok
                 /\ splitlines_keepends(read_text(files[k]))
                        = splitlines_keepends(log[j].json.first_file.content))
                    => CallsOf(k, {"PATCH"}) = {} /\ Printed(k, "No changes")

(* identical content found by a run that would have updated; the file on    *)
(* disk ends its line with CR LF, the gist with LF                          *)
C4_Witness ==
    /\ Loaded
    /\ args.diff /\ ~args.dry_run
    /\ \E k \in DOMAIN files :
        /\ Processed(k)
        /\ FS[files[k]].raw # read_text(files[k])
        /\ \E j \in CallsOf(k, {"GET"}) : log[j].ok
        /\ Printed(k, "No changes")
        /\ CallsOf(k, {"PATCH"}) = {}

-----------------------------------------------------------------------------
(* Run after run *)

(* the previous run created or updated the gist of the k-th file *)
SyncedBefore(k) == run > 1 /\ k \in DOMAIN prev.synced /\ prev.synced[k] # None

(* no other file of the list has the base name of the k-th *)
UniqueName(k) == \A m \in DOMAIN files : m # k => NameOf(m) # NameOf(k)

(* this run did to the k-th file what a repeated run should: the update      *)
(* branch against the id of the previous run, "No changes" and no update     *)
(* when the diff step fetched the gist, and otherwise an update that sends   *)
(* what the gist held; gist content and mapping are as the previous run      *)
(* left them                                                                 *)
Repeated(k) ==
    LET id == prev.synced[k]
    IN  /\ ResolvedToUpdate(k, id)
        /\ (args.diff /\ \E j \in CallsOf(k, {"GET"}) : log[j].ok)
            => Printed(k, "No changes") /\ CallsOf(k, {"PATCH"}) = {}
        /\ ~args.diff => CallsOf(k, {"PATCH"}) # {}
        /\ \A j \in CallsOf(k, {"PATCH"}) : log[j].content = prev.gists[id].content
        /\ id \in DOMAIN gists
        /\ gists[id].content = prev.gists[id].content
        /\ NameOf(k) \in DOMAIN config
        /\ config[NameOf(k)].gist_id = id
        /\ prev.config[NameOf(k)].gist_id = id

(* C5, as stated: every file the previous run created or updated is, in the  *)
(* next run over the same files, an update against the same id that changes  *)
(* nothing (read with the fetch of the diff step succeeding).                *)
C5_Idempotent_AsStated ==
    Loaded => \A k \in DOMAIN files : (Processed(k) /\ SyncedBefore(k)) => Repeated(k)

(* C5, amended: the same for every such file whose base name no other file   *)
(* of the list shares.                                                       *)
C5_Idempotent ==
    Loaded =>
        \A k \in DOMAIN files :
            (Processed(k) /\ SyncedBefore(k) /\ UniqueName(k)) => Repeated(k)

(* a gist created by the first run is found unchanged by the diff step of    *)
(* the second, and a tracked one updated by the first likewise               *)
C5_Witness ==
    /\ Loaded
    /\ run = 2
    /\ args.diff
    /\ \E k \in DOMAIN files :
        /\ Processed(k) /\ SyncedBefore(k) /\ UniqueName(k)
        /\ prev.synced[k] \notin DOMAIN OldGists
        /\ Printed(k, "No changes")
    /\ \E k \in DOMAIN files :
        /\ Processed(k) /\ SyncedBefore(k) /\ UniqueName(k)
        /\ prev.synced[k] \in DOMAIN OldGists
        /\ Printed(k, "No changes")

-----------------------------------------------------------------------------
(* What was done stays done: every gist a call of this run created or        *)
(* updated exists under its name, every name this run saved is in the        *)
(* tracking file, every pattern this run appended is in the ignore file.     *)
NothingRolledBack ==
    /\ \A j \in DOMAIN log :
        (log[j].kind = "call" /\ log[j].ok /\ log[j].op \in {"POST", "PATCH"}) =>
            /\ log[j].json.id \in DOMAIN gists
            /\ gists[log[j].json.id].name = log[j].name
    /\ \A j \in DOMAIN log :
        log[j].kind = "save" =>
            /\ log[j].name \in DOMAIN config
            /\ \/ config[log[j].name].gist_id = log[j].gist_id
               \/ \E m \in DOMAIN log :
                    m > j /\ log[m].kind = "save" /\ log[m].name = log[j].name
    /\ \A j \in DOMAIN log :
        log[j].kind = "ignore" => log[j].pattern \in Range(gistignore)

(* C6: when the operator answers "q" for the k-th file, the run is over: the *)
(* file was asked about once and got no call, no mapping write and no        *)
(* ignore-file write, nothing at all is logged for a later file, and what    *)
(* the earlier files got is kept.                                            *)
C6_QuitStopsRun ==
    \A k \in DOMAIN files :
        Prompted(k, "q") =>
            /\ args.create_new /\ args.interactive
            /\ pc = "done" /\ i = k
            /\ Cardinality(KindOf(k, "prompt")) = 1
            /\ \A j \in EventsOf(k) : log[j].kind \in {"lookup", "prompt", "print"}
            /\ \A j \in DOMAIN log : log[j].file <= k
            /\ NothingRolledBack

AllCalls(ops) == {j \in DOMAIN log : log[j].kind = "call" /\ log[j].op \in ops}

(* upload for the first file, quit at the second: one create call, kept *)
C6_Witness ==
    /\ Len(files) = 2
    /\ Prompted(1, "u")
    /\ Prompted(2, "q")
    /\ Cardinality(AllCalls({"POST", "PATCH", "GET"})) = 1
    /\ \E j \in AllCalls({"POST"}) :
        /\ log[j].file = 1
        /\ log[j].ok
        /\ log[j].json.id \in DOMAIN gists
        /\ config[NameOf(1)].gist_id = log[j].json.id

(* C7: when the operator answers "x" for a file, under dry_run or not, the   *)
(* file's name is a line of the ignore file from then on, the file got no    *)
(* remote call and no mapping write, and the loop went on to the next file.  *)
C7_ExcludeAppends ==
    \A k \in DOMAIN files :
        Prompted(k, "x") =>
            /\ args.create_new /\ args.interactive
            /\ NameOf(k) \in Range(gistignore)
            /\ Cardinality(KindOf(k, "ignore")) = 1
            /\ CallsOf(k, {"POST", "PATCH", "GET"}) = {}
            /\ KindOf(k, "save") = {}
            /\ k < i

(* an exclusion in a dry run, followed by the handling of another file *)
C7_Witness ==
    /\ pc = "done"
    /\ args.dry_run
    /\ \E k \in DOMAIN files :
        /\ Prompted(k, "x")
        /\ k < Len(files)
        /\ NameOf(k) \in Range(gistignore)
        /\ Printed(k + 1, "Would create gist")

-----------------------------------------------------------------------------
(* A create or update call that the service answered with an HTTP error *)
FailedMutations ==
    {j \in AllCalls({"POST", "PATCH"}) : log[j].status >= 400}

(* the run stopped at the failed call j, with the exit of its status *)
StoppedAt(j) ==
    /\ Ended
    /\ i = log[j].file
    /\ \A m \in DOMAIN log : m > j => log[m].kind = "print" /\ log[m].file = log[j].file
    /\ \A m \in DOMAIN log : log[m].file <= log[j].file
    /\ IF log[j].status = 403
       THEN /\ pc = "SystemExit"
            /\ ExitStatus = 1
            /\ Printed(log[j].file, "Error: GitHub token lacks required permissions.")
       ELSE /\ pc = "HTTPError"
            /\ ExitStatus # 0

(* C8, as stated: after a create or update call that returned an HTTP error  *)
(* no mapping entry is written for the file (read as: none that the          *)
(* tracking file did not hold when the run loaded it) and the run stops      *)
(* there, with exit status 1 and the remediation message for a 403 and with  *)
(* the propagated error and a non-zero status otherwise.                     *)
C8_FailureStops_AsStated ==
    \A j \in FailedMutations :
        /\ \A m \in KindOf(log[j].file, "save") :
            /\ log[m].name \in DOMAIN Tracked0
            /\ Tracked0[log[m].name] = log[m].gist_id
        /\ StoppedAt(j)

(* C8, amended: the failed call writes no mapping entry, and the only        *)
(* mapping write the file can have got is the one of the diff step, before   *)
(* the call and for the id the call was about to update; the rest as stated. *)
C8_FailureStops ==
    \A j \in FailedMutations :
        /\ \A m \in KindOf(log[j].file, "save") :
            /\ m < j
            /\ args.diff
            /\ log[j].op = "PATCH"
            /\ log[m].gist_id = log[j].id
        /\ StoppedAt(j)

(* an update refused with a 500 after the diff step wrote the mapping, on    *)
(* the second file of the list                                               *)
C8_Witness ==
    \E j \in FailedMutations :
        /\ log[j].status = 500
        /\ log[j].file = 2
        /\ KindOf(2, "save") # {}
        /\ NameOf(2) \notin DOMAIN Tracked0
        /\ pc = "HTTPError"

-----------------------------------------------------------------------------
(* C9, as stated: an entry that is not a regular file, or a regular file     *)
(* that cannot be read, gets a warning, no remote call and no write of the   *)
(* tracking or the ignore file, and the loop goes on to the next entry.      *)
(* Stated for the runs that ask the operator nothing, and with any line      *)
(* printed for the entry counted as its warning.                             *)
C9_UnreadableSkipped_AsStated ==
    ~args.interactive =>
        \A k \in DOMAIN files :
            (Processed(k) /\ (~is_file(files[k]) \/ ~CanRead(files[k]))) =>
                /\ KindOf(k, "print") # {}
                /\ \A j \in EventsOf(k) : log[j].kind \in {"lookup", "print"}
                /\ k < i

(* a regular file that cannot be read, second of the list and with a gist to *)
(* update: nothing is printed for it and the run ends in the OSError of      *)
(* read_text, after the first file was synced                                *)
C9_Witness ==
    /\ pc = "OSError"
    /\ i = 2
    /\ Len(files) = 2
    /\ is_file(files[2]) /\ ~CanRead(files[2])
    /\ ~LookedUp(2, None)
    /\ KindOf(2, "print") = {}
    /\ \E j \in AllCalls({"POST", "PATCH"}) : log[j].file = 1 /\ log[j].ok

-----------------------------------------------------------------------------
(* the name of the k-th file matches a pattern loaded at the start *)
Excluded(k) == \E pat \in excluded_patterns : fnmatch(NameOf(k), pat)

(* C10, as stated: with create_new, a file without a known gist whose name   *)
(* matches a loaded ignore pattern is reported as skipped (no existing       *)
(* gist), and gets no create call, no prompt and no mapping write.           *)
C10_IgnoredSkipped_AsStated ==
    (Loaded /\ args.create_new) =>
        \A k \in DOMAIN files :
            (Processed(k) /\ is_file(files[k]) /\ LookedUp(k, None) /\ Excluded(k)) =>
                /\ Printed(k, "Skipping (no existing gist)")
                /\ CallsOf(k, {"POST", "PATCH", "GET"}) = {}
                /\ KindOf(k, "prompt") = {}
                /\ KindOf(k, "save") = {}

(* C10, amended: such a file is passed over in silence: nothing is printed   *)
(* for it, and it gets no call, no prompt and no write; the loop goes on.    *)
C10_IgnoredSkipped ==
    (Loaded /\ args.create_new) =>
        \A k \in DOMAIN files :
            (Processed(k) /\ is_file(files[k]) /\ LookedUp(k, None) /\ Excluded(k)) =>
                /\ \A j \in EventsOf(k) : log[j].kind = "lookup"
                /\ k < i

(* an ignored file passed over by an interactive run that may create, which *)
(* then asks about the next file                                            *)
C10_Witness ==
    /\ Loaded
    /\ args.create_new /\ args.interactive /\ ~args.dry_run
    /\ \E k \in DOMAIN files :
        /\ Processed(k) /\ is_file(files[k]) /\ LookedUp(k, None) /\ Excluded(k)
        /\ KindOf(k, "print") = {}
        /\ KindOf(k + 1, "prompt") # {}

-----------------------------------------------------------------------------
(* The fetches of the diff step that failed: the connection broke or the     *)
(* service answered with an HTTP error                                       *)
FailedFetches ==
    {j \in AllCalls({"GET"}) : ~log[j].ok}

(* after the failed fetch j the diff step reported the error and wrote no    *)
(* mapping entry, and the file went on to its update: announced only in a    *)
(* dry run, and sent as a PATCH to the id of the fetch otherwise             *)
UpdatedAnyway(j) ==
    LET k == log[j].file
    IN  /\ args.diff
        /\ Printed(k, "Error fetching gist content")
        /\ CallsOf(k, {"POST"}) = {}
        /\ KindOf(k, "prompt") = {}
        /\ \A m \in KindOf(k, "save") :
                \E p \in CallsOf(k, {"PATCH"}) : j < p /\ p < m /\ log[p].ok
        /\ IF args.dry_run
           THEN /\ Printed(k, "Would update gist")
                /\ CallsOf(k, {"PATCH"}) = {}
           ELSE /\ Cardinality(CallsOf(k, {"PATCH"})) = 1
                /\ \A p \in CallsOf(k, {"PATCH"}) :
                    /\ j < p
                    /\ log[p].id = log[j].id
                    /\ log[p].name = NameOf(k)
                    /\ log[p].content = read_text(files[k])

(* the update call sent for the k-th file did not succeed *)
UpdateFailed(k) == \E p \in CallsOf(k, {"PATCH"}) : ~log[p].ok

(* C11, as stated: when the fetch of the diff step fails, the error is       *)
(* reported, no mapping entry is written by the diff step, the update is     *)
(* issued all the same (announced under dry_run), and the loop then goes on  *)
(* to the next file.                                                         *)
C11_FetchFailureUpdates_AsStated ==
    \A j \in FailedFetches :
        /\ UpdatedAnyway(j)
        /\ log[j].file < i

(* C11, amended: the same, the loop going on to the next file when the       *)
(* update succeeded or was only announced; an update that fails in its turn  *)
(* ends the run at this file.                                                *)
C11_FetchFailureUpdates ==
    \A j \in FailedFetches :
        /\ UpdatedAnyway(j)
        /\ IF UpdateFailed(log[j].file)
           THEN /\ Ended
                /\ pc \in {"SystemExit", "HTTPError", "ConnectionError"}
                /\ i = log[j].file
           ELSE log[j].file < i

(* a fetch that broke on the first file, its update sent and accepted, and   *)
(* the second file handled after it                                          *)
C11_Witness ==
    /\ ~args.dry_run
    /\ \E j \in FailedFetches :
        /\ log[j].file = 1
        /\ log[j].status = 0
        /\ \E p \in CallsOf(1, {"PATCH"}) : log[p].ok /\ gists[log[p].id].content = read_text(files[1])
        /\ KindOf(1, "save") # {}
    /\ EventsOf(2) # {}

=============================================================================
